---- MODULE Spec2Model ----
(***************************************************************************)
(* Quickprop (src/quickprop.ipynb): the update rule quickprop_step with    *)
(* its helpers cond_add_slope and clip_at_max_growth, the seeding          *)
(* grad_descent_step, and the convergence driver quickprop.                *)
(*                                                                         *)
(* Numbers.  The code computes on IEEE-754 floats.  A number is modelled   *)
(* as a record [n, d]: d > 0 is the exact rational n/d in lowest terms,    *)
(* d = 0 is one of the three IEEE special values: n = 0 is NaN, n = 1 is   *)
(* +Inf, n = -1 is -Inf.  The arithmetic below follows IEEE-754 on the     *)
(* special values (x/0, 0*Inf, Inf-Inf, comparisons with NaN); rounding,   *)
(* overflow of finite values and the sign of zero are not modelled.        *)
(*                                                                         *)
(* A finite number may also be a binary float: a record [n, d, e] with     *)
(* d = 1 that stands for n * 2^e, the significand n of SigBits bits        *)
(* (torch.Tensor is float32).  An operation with a float operand rounds    *)
(* its result to the nearest float, ties to even, as the hardware does;    *)
(* the other operand is converted first, as torch converts a Python        *)
(* scalar.  The exponent is unbounded: subnormals and overflow are not     *)
(* modelled.  Floats enter a run only through a provider that returns      *)
(* them.                                                                   *)
(***************************************************************************)
EXTENDS Integers, Sequences, FiniteSets, TLC

----------------------------------------------------------------------------
(* Extended rational arithmetic *)

RECURSIVE Gcd(_, _)
Gcd(a, b) == IF b = 0 THEN a ELSE Gcd(b, a % b)

AbsInt(a) == IF a < 0 THEN -a ELSE a

SgnInt(a) == IF a < 0 THEN -1 ELSE IF a > 0 THEN 1 ELSE 0

\* The rational n/d (d # 0) in lowest terms with a positive denominator.
Rat(n, d) ==
    LET g == Gcd(AbsInt(n), AbsInt(d))
        s == SgnInt(d)
    IN  [n |-> (s * n) \div g, d |-> (s * d) \div g]

Int2Rat(a) == [n |-> a, d |-> 1]

NaN  == [n |-> 0, d |-> 0]
PInf == [n |-> 1, d |-> 0]
NInf == [n |-> -1, d |-> 0]

IsNaN(x)    == x.d = 0 /\ x.n = 0
IsInf(x)    == x.d = 0 /\ x.n # 0
IsFinite(x) == x.d > 0
IsZero(x)   == x.d > 0 /\ x.n = 0

InfOfSign(s) == IF s > 0 THEN PInf ELSE NInf

\* Operators take their arguments by name; By1 and By2 hand F its arguments
\* by value, so that each is computed once.
By1(F(_), x) == CHOOSE r \in {F(a) : a \in {x}} : TRUE

By2(F(_, _), x, y) == CHOOSE r \in {F(a, b) : a \in {x}, b \in {y}} : TRUE

----------------------------------------------------------------------------
(* Binary floating point, round to nearest, ties to even *)

\* Bits of a float32 significand.
SigBits == 24

\* Half the significand width, for the double-width product.
HalfBits == SigBits \div 2

IsFloat(x) == "e" \in DOMAIN x

FZero == [n |-> 0, d |-> 1, e |-> 0]

RECURSIVE BitLength(_)
BitLength(a) == IF a = 0 THEN 0 ELSE 1 + BitLength(a \div 2)

\* The float nearest to s * 2^e, for an integer s.  Where s stands for a
\* value with further nonzero bits below its last one, the caller makes s
\* odd and keeps two bits or more beyond the significand, so that no tie
\* arises.
RoundV(s, e) ==
    LET a == AbsInt(s)
        b == BitLength(a)
        k == b - SigBits
    IN  IF a = 0 THEN FZero
        ELSE IF k <= 0
        THEN [n |-> SgnInt(s) * a * 2^(-k), d |-> 1, e |-> e + k]
        ELSE LET q  == a \div 2^k
                 r  == a % 2^k
                 h  == 2^(k - 1)
                 up == r > h \/ (r = h /\ q % 2 = 1)
                 m  == IF up THEN q + 1 ELSE q
             IN  IF m = 2^SigBits
                 THEN [n |-> SgnInt(s) * 2^(SigBits - 1), d |-> 1, e |-> e + k + 1]
                 ELSE [n |-> SgnInt(s) * m, d |-> 1, e |-> e + k]

Round(s, e) == By2(RoundV, s, e)

\* x + y for floats: the operand of smaller exponent is shifted right with
\* three guard bits and a sticky bit.
FAddV(x, y) ==
    IF x.n = 0 THEN y
    ELSE IF y.n = 0 THEN x
    ELSE LET hi == IF x.e >= y.e THEN x ELSE y
             lo == IF x.e >= y.e THEN y ELSE x
             sh == hi.e - lo.e
         IN  IF sh > SigBits + 3 THEN hi
             ELSE LET a  == AbsInt(lo.n) * 8
                      q  == a \div 2^sh
                      st == IF a % 2^sh # 0 THEN 1 ELSE 0
                  IN  Round(hi.n * 16 + SgnInt(lo.n) * (2 * q + st), hi.e - 4)

\* x * y for floats: the double-width product from half-width parts, its
\* leading bits kept and the rest folded into a sticky bit.
FMulV(x, y) ==
    IF x.n = 0 \/ y.n = 0 THEN FZero
    ELSE LET B   == 2^HalfBits
             a   == AbsInt(x.n)
             b   == AbsInt(y.n)
             top == (a \div B) * (b \div B)
             mid == (a \div B) * (b % B) + (a % B) * (b \div B)
             low == (a % B) * (b % B)
             yy  == (mid % B) * B + low
             H   == top + mid \div B + yy \div (B * B)
             Lo  == yy % (B * B)
             cut == 2^(SigBits - 5)
             st  == IF Lo % cut # 0 THEN 1 ELSE 0
         IN  Round(SgnInt(x.n) * SgnInt(y.n) * (2 * (H * 32 + Lo \div cut) + st),
                   x.e + y.e + SigBits - 6)

\* The next steps quotient bits of r / b by long division: <<quotient, rest>>.
RECURSIVE DivBits(_, _, _, _)
DivBits(r, b, q, steps) ==
    IF steps = 0 THEN <<q, r>>
    ELSE IF 2 * r >= b THEN DivBits(2 * r - b, b, 2 * q + 1, steps - 1)
    ELSE DivBits(2 * r, b, 2 * q, steps - 1)

\* x / y for floats, y # 0.
FDivV(x, y) ==
    IF x.n = 0 THEN FZero
    ELSE LET a  == AbsInt(x.n)
             b  == AbsInt(y.n)
             qr == DivBits(a % b, b, a \div b, SigBits + 2)
             st == IF qr[2] # 0 THEN 1 ELSE 0
         IN  Round(SgnInt(x.n) * SgnInt(y.n) * (2 * qr[1] + st),
                   x.e - y.e - (SigBits + 3))

\* The float nearest to a number: a float or a special value is kept, a
\* rational n/d is rounded.
ToFloatV(x) ==
    IF x.d = 0 \/ IsFloat(x) THEN x ELSE FDivV(RoundV(x.n, 0), RoundV(x.d, 0))

ToFloat(x) == By1(ToFloatV, x)

\* x < y for floats.
FLessV(x, y) ==
    IF SgnInt(x.n) # SgnInt(y.n) THEN SgnInt(x.n) < SgnInt(y.n)
    ELSE IF x.n = 0 THEN FALSE
    ELSE IF x.e # y.e THEN (IF x.n > 0 THEN x.e < y.e ELSE x.e > y.e)
    ELSE x.n < y.n

\* np.ceil of a float.
FCeilV(x) ==
    IF x.n = 0 THEN Int2Rat(0)
    ELSE IF x.e >= 0 THEN x
    ELSE IF -x.e >= SigBits THEN Int2Rat(IF x.n > 0 THEN 1 ELSE 0)
    ELSE Int2Rat(-((-x.n) \div 2^(-x.e)))

----------------------------------------------------------------------------
(* Arithmetic on numbers *)

NegV(x) == [x EXCEPT !.n = -x.n]

Neg(x) == By1(NegV, x)

AbsV(x) == [x EXCEPT !.n = AbsInt(x.n)]

AbsR(x) == By1(AbsV, x)

AddV(x, y) ==
    IF IsNaN(x) \/ IsNaN(y) THEN NaN
    ELSE IF IsInf(x) /\ IsInf(y) THEN (IF x.n = y.n THEN x ELSE NaN)
    ELSE IF IsInf(x) THEN x
    ELSE IF IsInf(y) THEN y
    ELSE IF IsFloat(x) \/ IsFloat(y) THEN FAddV(ToFloatV(x), ToFloatV(y))
    ELSE LET g == Gcd(x.d, y.d)
         IN  Rat(x.n * (y.d \div g) + y.n * (x.d \div g), (x.d \div g) * y.d)

Add(x, y) == By2(AddV, x, y)

Sub(x, y) == Add(x, Neg(y))

MulV(x, y) ==
    IF IsNaN(x) \/ IsNaN(y) THEN NaN
    ELSE IF IsInf(x) \/ IsInf(y)
         THEN (IF x.n = 0 \/ y.n = 0 THEN NaN
               ELSE InfOfSign(SgnInt(x.n) * SgnInt(y.n)))
    ELSE IF IsFloat(x) \/ IsFloat(y) THEN FMulV(ToFloatV(x), ToFloatV(y))
    ELSE LET g1 == Gcd(AbsInt(x.n), y.d)
             g2 == Gcd(AbsInt(y.n), x.d)
         IN  [n |-> (x.n \div g1) * (y.n \div g2),
              d |-> (x.d \div g2) * (y.d \div g1)]

Mul(x, y) == By2(MulV, x, y)

\* IEEE division: x/0 is NaN for x = 0 and an infinity otherwise; no error
\* is raised (numpy and torch only produce the special value).
DivV(x, y) ==
    IF IsNaN(x) \/ IsNaN(y) THEN NaN
    ELSE IF IsInf(y) THEN (IF IsInf(x) THEN NaN ELSE Int2Rat(0))
    ELSE IF IsInf(x) THEN InfOfSign(x.n * (IF y.n < 0 THEN -1 ELSE 1))
    ELSE IF y.n = 0 THEN (IF x.n = 0 THEN NaN ELSE InfOfSign(x.n))
    ELSE IF IsFloat(x) \/ IsFloat(y) THEN FDivV(ToFloatV(x), ToFloatV(y))
    ELSE MulV(x, Rat(y.d, y.n))

Div(x, y) == By2(DivV, x, y)

\* x < y and x <= y; every comparison with NaN is false.
LessV(x, y) ==
    /\ ~IsNaN(x) /\ ~IsNaN(y)
    /\ IF IsInf(x) \/ IsInf(y)
       THEN (IF IsInf(x) /\ IsInf(y) THEN x.n < y.n
             ELSE IF IsInf(x) THEN x.n < 0 ELSE y.n > 0)
       ELSE IF IsFloat(x) \/ IsFloat(y) THEN FLessV(ToFloatV(x), ToFloatV(y))
       ELSE LET g == Gcd(x.d, y.d)
            IN  x.n * (y.d \div g) < y.n * (x.d \div g)

Less(x, y) == By2(LessV, x, y)

LeqV(x, y) == ~IsNaN(x) /\ ~IsNaN(y) /\ ~LessV(y, x)

Leq(x, y) == By2(LeqV, x, y)

Greater(x, y) == Less(y, x)

\* np.sign: -1, 0 or 1, and NaN for NaN.
SignV(x) == IF IsNaN(x) THEN NaN ELSE Int2Rat(SgnInt(x.n))

Sign(x) == By1(SignV, x)

\* np.ceil
CeilV(x) ==
    IF x.d = 0 THEN x
    ELSE IF IsFloat(x) THEN FCeilV(x)
    ELSE Int2Rat(-((-x.n) \div x.d))

Ceil(x) == By1(CeilV, x)

\* np.maximum / np.minimum: NaN if either argument is NaN.
MaximumV(x, y) == IF IsNaN(x) \/ IsNaN(y) THEN NaN ELSE IF LessV(x, y) THEN y ELSE x

Maximum(x, y) == By2(MaximumV, x, y)

MinimumV(x, y) == IF IsNaN(x) \/ IsNaN(y) THEN NaN ELSE IF LessV(y, x) THEN y ELSE x

Minimum(x, y) == By2(MinimumV, x, y)

\* np.clip(x, a_min, a_max) = minimum(maximum(x, a_min), a_max)
Clip(x, lo, hi) == Minimum(Maximum(x, lo), hi)

----------------------------------------------------------------------------
(* Vectors: a tensor is a sequence of numbers.  Elementwise operations     *)
(* broadcast as numpy and torch do for one-dimensional operands: lengths   *)
(* must agree, or be 1.                                                    *)

MaxOf(S) == CHOOSE m \in S : \A x \in S : x <= m

\* The operand lengths other than 1; broadcasting succeeds iff there is at
\* most one.
WideLens(vs) == {Len(vs[j]) : j \in DOMAIN vs} \ {1}

Broadcasts(vs) == Cardinality(WideLens(vs)) <= 1

BLen(vs) == MaxOf({Len(vs[j]) : j \in DOMAIN vs})

At(v, k) == IF Len(v) = 1 THEN v[1] ELSE v[k]

Zeros(m) == [k \in 1..m |-> Int2Rat(0)]

Ones(m) == [k \in 1..m |-> Int2Rat(1)]

HasNaN(v) == \E k \in DOMAIN v : IsNaN(v[k])

VAddV(a, b) == [k \in 1..BLen(<<a, b>>) |-> Add(At(a, k), At(b, k))]

VAdd(a, b) == By2(VAddV, a, b)

VScaleV(c, a) == [k \in 1..Len(a) |-> Mul(c, a[k])]

VScale(c, a) == By2(VScaleV, c, a)

----------------------------------------------------------------------------
(* The update rule, one component at a time *)

\* grad_descent_step's default learning_rate and quickprop_step's default
\* gd_learning_rate (1e-5); cond_add_slope's and quickprop_step's default
\* learning rate (1.5); clip_at_max_growth's default max_growth_factor
\* (1.75); quickprop's default learning_rate (1e-4) and tolerance (1e-6).
GdLearningRate == Rat(1, 100000)

QpLearningRateDefault == Rat(3, 2)

MaxGrowthFactor == Rat(7, 4)

LearningRateDefault == Rat(1, 10000)

ToleranceDefault == Rat(1, 1000000)

PatienceDefault == 20000

\* SlopeDecider with the absolute value taken of each sign instead of their sum.
SlopeDeciderAbsEach(dw, dw_prev) ==
    Clip(Add(AbsR(Sign(dw)), AbsR(Sign(dw_prev))), Int2Rat(0), Int2Rat(1))

\* ddw of cond_add_slope: clip(|sign(dw) + sign(dw_prev)|, 0, 1)
SlopeDecider(dw, dw_prev) ==
    Clip(AbsR(Add(Sign(dw), Sign(dw_prev))), Int2Rat(0), Int2Rat(1))

\* The term cond_add_slope adds to dw: ddw * (-learning_rate * dL)
SlopeTerm(dw, dw_prev, dL, learning_rate) ==
    Mul(SlopeDecider(dw, dw_prev), Mul(Neg(learning_rate), dL))

cond_add_slope_at(dw, dw_prev, dL, learning_rate) ==
    Add(dw, SlopeTerm(dw, dw_prev, dL, learning_rate))

clip_at_max_growth_at(dw, dw_prev) ==
    LET max_growth == Mul(MaxGrowthFactor, AbsR(dw_prev))
    IN  Clip(dw, Neg(max_growth), max_growth)

\* The 'decider' bit: ceil(clip(|dL_prev - dL|, 0, 1) / 2)
Decider(dL_prev, dL) ==
    Ceil(Div(Clip(AbsR(Sub(dL_prev, dL)), Int2Rat(0), Int2Rat(1)), Int2Rat(2)))

quickprop_factor(dw_prev, dL_prev, dL) ==
    Mul(Decider(dL_prev, dL), Div(dw_prev, Sub(dL_prev, dL)))

grad_desc_factor(dL_prev, dL, gd_learning_rate) ==
    Mul(Sub(Int2Rat(1), Decider(dL_prev, dL)), Neg(gd_learning_rate))

\* dw before the slope addition and the clamp:
\* dL * (quickprop_factor + grad_desc_factor)
RawDelta(dw_prev, dL_prev, dL, gd_learning_rate) ==
    Mul(dL, Add(quickprop_factor(dw_prev, dL_prev, dL),
                grad_desc_factor(dL_prev, dL, gd_learning_rate)))

\* One component of the dw quickprop_step returns.
StepDelta(dw_prev, dL_prev, dL, qp_learning_rate, gd_learning_rate) ==
    clip_at_max_growth_at(
        cond_add_slope_at(RawDelta(dw_prev, dL_prev, dL, gd_learning_rate),
                          dw_prev, dL, qp_learning_rate),
        dw_prev)

----------------------------------------------------------------------------
(* The functions on tensors *)

cond_add_slope(dw, dw_prev, dL, learning_rate) ==
    IF ~Broadcasts(<<dw, dw_prev, dL>>) THEN "ValueError"
    ELSE [k \in 1..BLen(<<dw, dw_prev, dL>>) |->
            cond_add_slope_at(At(dw, k), At(dw_prev, k), At(dL, k), learning_rate)]

clip_at_max_growth(dw, dw_prev) ==
    IF ~Broadcasts(<<dw, dw_prev>>) THEN "ValueError"
    ELSE [k \in 1..BLen(<<dw, dw_prev>>) |->
            clip_at_max_growth_at(At(dw, k), At(dw_prev, k))]

\* grad_descent_step, given what calc_gradient returned at w.
grad_descent_step(w, g, learning_rate) ==
    By1(LAMBDA dw : [new_w |-> VAdd(w, dw), dw |-> dw, L |-> g.L, dL |-> g.dL],
        VScale(Neg(learning_rate), g.dL))

\* quickprop_step, given what calc_gradient returned at w (g.dL has w's
\* shape).  There is no check of the shapes: operands that broadcast give a
\* result, the others make an elementwise operation raise.
quickprop_step(w, dw_prev, dL_prev, g, qp_learning_rate, gd_learning_rate) ==
    IF ~Broadcasts(<<w, dw_prev, dL_prev>>)
    THEN [ok |-> FALSE, error |-> "RuntimeError"]
    ELSE By1(LAMBDA dw : [ok |-> TRUE, new_w |-> VAdd(w, dw), dw |-> dw,
                          L |-> g.L, dL |-> g.dL, predicted |-> g.predicted],
             [k \in 1..BLen(<<w, dw_prev, dL_prev>>) |->
                StepDelta(At(dw_prev, k), At(dL_prev, k), At(g.dL, k),
                          qp_learning_rate, gd_learning_rate)])

----------------------------------------------------------------------------
(* Bounds and input sets *)

\* Largest patience the driver is run with.
MaxPatience == 3

\* Largest number of weights the driver is run with.
MaxDim == 1

\* Longest tensor handed to a function called on its own.
MaxLen == 2

\* What calc_gradient may return at a weight tensor without NaN: the
\* gradient's components and the loss.
GradValues == {Int2Rat(-1), Int2Rat(0), Int2Rat(1)}

LossValues == {Int2Rat(0), Int2Rat(1)}

\* The driver's arguments.
Tolerances == {ToleranceDefault, Rat(1, 2), Int2Rat(1)}

LearningRates == {LearningRateDefault, QpLearningRateDefault}

Patiences == 0..MaxPatience

InitialWeights == UNION {{Zeros(m)} : m \in 1..MaxDim}

\* The arguments of a function called on its own: numbers, the special
\* values among them, and tensors of up to MaxLen numbers.
Numbers == {Int2Rat(-1), Int2Rat(0), Int2Rat(1), NaN, PInf, NInf}

Tensors(S) == UNION {[1..m -> S] : m \in 1..MaxLen}

CondAddSlopeCalls ==
    [fn : {"cond_add_slope"}, dw : [1..1 -> Numbers],
     dw_prev : [1..1 -> Numbers], dL : [1..1 -> Numbers],
     learning_rate : LearningRates]

QuickpropStepCalls ==
    [fn : {"quickprop_step"}, w : Tensors({Int2Rat(0)}),
     dw_prev : Tensors({Int2Rat(0), Int2Rat(1)}), dL_prev : Tensors(GradValues)]

----------------------------------------------------------------------------
(* State *)

VARIABLES
    pc,             \* where quickprop() is
    learning_rate, tolerance, patience,      \* quickprop()'s arguments
    problem,        \* x_, y_, activation and loss: what calc_gradient computes
    w, dw, dw_prev, dL, dL_prev, L, predicted,
    i, L_mean, L_mean_prev, L_mean_diff,
    result,         \* what quickprop() returned or raised
    memo,           \* calc_gradient so far: a set of <<weights, returned>>
    seed,           \* what the seeding grad_descent_step returned
    losses,         \* the losses of the Quickprop iterations, in order
    trace,          \* the steps quickprop() has called, in order
    call, ret       \* a function called on its own, and what it returned

cfg == <<learning_rate, tolerance, patience, problem>>

loc == <<w, dw, dw_prev, dL, dL_prev, L, predicted>>

trk == <<i, L_mean, L_mean_prev, L_mean_diff>>

fnv == <<call, ret>>

vars == <<pc, cfg, loc, trk, result, memo, seed, losses, trace, fnv>>

\* Names not bound yet: a number, a tensor, grad_descent_step's result and
\* quickprop()'s result.
NoNumber == [n |-> 0, d |-> -1]

NoTensor == <<>>

\* predicted before line 460, and predicted = [] (a list, not a tensor).
NoPrediction == [kind |-> "unbound", at |-> <<>>]

EmptyList == [kind |-> "list", at |-> <<>>]

NoSeed == [new_w |-> NoTensor, dw |-> NoTensor, L |-> NoNumber, dL |-> NoTensor]

NoResult ==
    [error |-> "pending", w |-> NoTensor, predicted |-> NoPrediction, i |-> 0,
     L |-> NoNumber]

\* calc_gradient at weights v: the loss, the gradient (of v's shape) and the
\* prediction.  activation and loss are the caller's; what they compute is
\* any function of the weights, the same at the same weights.  NaN weights
\* give NaN (torch.mm, the activation and the loss propagate it).
\* The prediction is a tensor; the model keeps the weights it was computed at.
Prediction(v) == [kind |-> "tensor", at |-> v]

NaNGradient(v) ==
    [L |-> NaN, dL |-> [k \in DOMAIN v |-> NaN], predicted |-> Prediction(v)]

calc_gradient(v, known) ==
    IF HasNaN(v) THEN {NaNGradient(v)}
    ELSE IF \E e \in known : e[1] = v
         THEN {e[2] : e \in {e \in known : e[1] = v}}
         ELSE {[L |-> l, dL |-> g, predicted |-> Prediction(v)] :
                  l \in LossValues, g \in [DOMAIN v -> GradValues]}

Remember(v, g, known) == IF HasNaN(v) THEN known ELSE known \cup {<<v, g>>}

\* calc_gradient for x = [[1]], y = [[Minimum]], the identity activation and
\* MSELoss, in float32: the prediction is w, the loss (w - Minimum)^2 and
\* its gradient 2 (w - Minimum).
QuadraticMinimum == Int2Rat(3)

Quadratic(v) ==
    LET t == Sub(ToFloat(v[1]), QuadraticMinimum)
    IN  [L |-> Mul(t, t), dL |-> <<Mul(Int2Rat(2), t)>>,
         predicted |-> Prediction(v)]

\* What calc_gradient returns at weights v for the problem given to
\* quickprop().
Provider(v, known) ==
    IF problem = "quadratic" THEN {Quadratic(v)} ELSE calc_gradient(v, known)

----------------------------------------------------------------------------
(* quickprop() *)

\* One step as quickprop() called it: the function, the arguments it was
\* given, what its one call of calc_gradient returned at w, and the weights
\* and the delta it returned.
Called(fn, w_in, dw_prev_in, dL_prev_in, g, r) ==
    [fn |-> fn, w |-> w_in, dw_prev |-> dw_prev_in, dL_prev |-> dL_prev_in,
     L |-> g.L, dL |-> g.dL, new_w |-> r.new_w, dw |-> r.dw]

\* Lines 442-454: the state before the seeding step.
Locals ==
    /\ pc = "seed"
    /\ L_mean = Int2Rat(1)
    /\ L_mean_prev = Int2Rat(1)
    /\ L_mean_diff = Int2Rat(1)
    /\ dL = Zeros(Len(w))
    /\ dL_prev = Ones(Len(w))
    /\ dw_prev = Ones(Len(w))
    /\ dw = NoTensor
    /\ L = NoNumber
    /\ predicted = NoPrediction
    /\ i = 0
    /\ result = NoResult
    /\ memo = {}
    /\ seed = NoSeed
    /\ losses = <<>>
    /\ trace = <<>>

DriverInit ==
    /\ learning_rate \in LearningRates
    /\ tolerance \in Tolerances
    /\ patience \in Patiences
    /\ problem = "any"
    /\ w \in InitialWeights
    /\ Locals

\* quickprop() on the quadratic problem from w = 0 with the default
\* patience.
QuadInit ==
    /\ learning_rate \in LearningRates
    /\ tolerance \in Tolerances
    /\ patience = PatienceDefault
    /\ problem = "quadratic"
    /\ w = <<FZero>>
    /\ Locals
    /\ call = [fn |-> "none"]
    /\ ret = [done |-> FALSE]

NoCall == call = [fn |-> "none"] /\ ret = [done |-> FALSE]

Init == DriverInit /\ NoCall

\* Seed with grad_descent_step given the driver's learning_rate.
SeedWithLearningRate ==
    /\ pc = "seed"
    /\ \E g \in Provider(w, memo) :
       \E r \in {grad_descent_step(w, g, learning_rate)} :
             /\ w' = r.new_w
             /\ dw_prev' = r.dw
             /\ L' = r.L
             /\ dL_prev' = r.dL
             /\ seed' = r
             /\ memo' = Remember(w, g, memo)
             /\ trace' = Append(trace, Called("grad_descent_step", w,
                                               NoTensor, NoTensor, g, r))
    /\ i' = 0
    /\ predicted' = EmptyList
    /\ pc' = "test"
    /\ UNCHANGED <<cfg, dw, dL, L_mean, L_mean_prev, L_mean_diff, result,
                   losses, fnv>>

\* Lines 456-460: w, dw_prev, L, dL_prev = grad_descent_step(...); i = 0;
\* predicted = []
Seed ==
    /\ pc = "seed"
    /\ \E g \in Provider(w, memo) :
       \E r \in {grad_descent_step(w, g, GdLearningRate)} :
             /\ w' = r.new_w
             /\ dw_prev' = r.dw
             /\ L' = r.L
             /\ dL_prev' = r.dL
             /\ seed' = r
             /\ memo' = Remember(w, g, memo)
             /\ trace' = Append(trace, Called("grad_descent_step", w,
                                               NoTensor, NoTensor, g, r))
    /\ i' = 0
    /\ predicted' = EmptyList
    /\ pc' = "test"
    /\ UNCHANGED <<cfg, dw, dL, L_mean, L_mean_prev, L_mean_diff, result,
                   losses, fnv>>

\* LoopCondition without the patience test.
LoopConditionNoPatience == Greater(L_mean_diff, tolerance)

\* Line 463: while L_mean_diff > tolerance and i < patience
LoopCondition == Greater(L_mean_diff, tolerance) /\ i < patience

LoopTest ==
    /\ pc = "test"
    /\ pc' = IF LoopCondition THEN "prep" ELSE "return"
    /\ UNCHANGED <<cfg, loc, trk, result, memo, seed, losses, trace, fnv>>

\* Prep without line 466: dL_prev keeps what it held.
PrepKeepingGradient ==
    /\ pc = "prep"
    /\ i' = i + 1
    /\ pc' = "step"
    /\ UNCHANGED <<cfg, loc, L_mean, L_mean_prev, L_mean_diff, result, memo,
                   seed, losses, trace, fnv>>

\* Lines 465-466: i += 1; dL_prev = dL.clone()
Prep ==
    /\ pc = "prep"
    /\ i' = i + 1
    /\ dL_prev' = dL
    /\ pc' = "step"
    /\ UNCHANGED <<cfg, w, dw, dw_prev, dL, L, predicted, L_mean, L_mean_prev,
                   L_mean_diff, result, memo, seed, losses, trace, fnv>>

\* Line 468: w, dw, L, dL, predicted = quickprop_step(..., qp_learning_rate=
\* learning_rate); gd_learning_rate keeps its default.
Step ==
    /\ pc = "step"
    /\ \E g \in Provider(w, memo) :
       \E r \in {quickprop_step(w, dw_prev, dL_prev, g, learning_rate,
                                 GdLearningRate)} :
             /\ w' = r.new_w
             /\ dw' = r.dw
             /\ L' = r.L
             /\ dL' = r.dL
             /\ predicted' = r.predicted
             /\ losses' = Append(losses, r.L)
             /\ memo' = Remember(w, g, memo)
             /\ trace' = Append(trace, Called("quickprop_step", w, dw_prev,
                                               dL_prev, g, r))
    /\ pc' = "track"
    /\ UNCHANGED <<cfg, dw_prev, dL_prev, trk, result, seed, fnv>>

\* NextMean with the step size 1/i instead of 1/(i+1).
NextMeanStepOverI(mean, loss, n) == Add(mean, Mul(Rat(1, n), Sub(loss, mean)))

\* Line 473: L_mean + (1/(i+1))*(L - L_mean)
NextMean(mean, loss, n) == Add(mean, Mul(Rat(1, n + 1), Sub(loss, mean)))

\* Lines 470-475: dw_prev = dw.clone(); the running mean of the losses.
Track ==
    /\ pc = "track"
    /\ dw_prev' = dw
    /\ L_mean' = NextMean(L_mean, L, i)
    /\ L_mean_diff' = AbsR(Sub(L_mean_prev, L_mean'))
    /\ L_mean_prev' = L_mean'
    /\ pc' = "test"
    /\ UNCHANGED <<cfg, w, dw, dL, dL_prev, L, predicted, i, result, memo,
                   seed, losses, trace, fnv>>

\* ReturnValue with the prediction taken at the weights returned.
ReturnValueAtFinal ==
    IF predicted = EmptyList THEN [NoResult EXCEPT !.error = "AttributeError"]
    ELSE [error |-> "", w |-> w, predicted |-> Prediction(w), i |-> i, L |-> L]

\* Line 482: return w.detach().numpy(), predicted.detach().numpy(), i,
\* L.detach().numpy().  A list has no detach().
ReturnValue ==
    IF predicted = EmptyList THEN [NoResult EXCEPT !.error = "AttributeError"]
    ELSE [error |-> "", w |-> w, predicted |-> predicted, i |-> i, L |-> L]

Return ==
    /\ pc = "return"
    /\ result' = ReturnValue
    /\ pc' = IF predicted = EmptyList THEN "raised" ELSE "returned"
    /\ UNCHANGED <<cfg, loc, trk, memo, seed, losses, trace, fnv>>

----------------------------------------------------------------------------
(* The functions called on their own, on arguments drawn from the sets     *)
(* above; quickprop() is not running.                                      *)

NoDriver ==
    /\ pc = "idle"
    /\ learning_rate = LearningRateDefault
    /\ tolerance = ToleranceDefault
    /\ patience = 0
    /\ problem = "any"
    /\ w = NoTensor /\ dw = NoTensor /\ dw_prev = NoTensor
    /\ dL = NoTensor /\ dL_prev = NoTensor
    /\ L = NoNumber /\ predicted = NoPrediction
    /\ i = 0
    /\ L_mean = Int2Rat(1) /\ L_mean_prev = Int2Rat(1) /\ L_mean_diff = Int2Rat(1)
    /\ result = NoResult /\ memo = {} /\ seed = NoSeed /\ losses = <<>> /\ trace = <<>>

FnInit ==
    /\ NoDriver
    /\ call \in CondAddSlopeCalls \cup QuickpropStepCalls
    /\ ret = [done |-> FALSE]

CallCondAddSlope ==
    /\ call.fn = "cond_add_slope"
    /\ ~ret.done
    /\ ret' = [done |-> TRUE,
               value |-> cond_add_slope(call.dw, call.dw_prev, call.dL,
                                        call.learning_rate)]
    /\ UNCHANGED <<pc, cfg, loc, trk, result, memo, seed, losses, trace, call>>

\* quickprop_step with its default learning rates; line 392 calls
\* calc_gradient first.
CallQuickpropStep ==
    /\ call.fn = "quickprop_step"
    /\ ~ret.done
    /\ \E g \in calc_gradient(call.w, {}) :
         ret' = [done |-> TRUE, gradient |-> g,
                 value |-> quickprop_step(call.w, call.dw_prev, call.dL_prev, g,
                                          QpLearningRateDefault, GdLearningRate)]
    /\ UNCHANGED <<pc, cfg, loc, trk, result, memo, seed, losses, trace, call>>

FnNext == CallCondAddSlope \/ CallQuickpropStep

SpecFn == FnInit /\ [][FnNext]_vars

Next == Seed \/ LoopTest \/ Prep \/ Step \/ Track \/ Return

Spec == Init /\ [][Next]_vars

\* The driver is one thread of control: it takes its next step whenever it
\* has one.
FairSpec == Spec /\ WF_vars(Next)

SpecQuad == QuadInit /\ [][Next]_vars

----------------------------------------------------------------------------
(* Properties *)

\* x == y on floats: false when either is NaN.
EqNum(x, y) == ~IsNaN(x) /\ ~IsNaN(y) /\ x = y

\* quickprop_step has returned in the driver and dw_prev, dL_prev still hold
\* what it was called with.
AfterStep == pc = "track"

Components == DOMAIN dw

\* C1: zero-denominator safety.  After every quickprop_step of the driver,
\* each component whose previous gradient equals its current gradient has a
\* finite delta (not NaN, not Inf).
ZeroDenominatorSafety ==
    AfterStep =>
        \A k \in Components : EqNum(dL_prev[k], dL[k]) => IsFinite(dw[k])

\* C2: seed hand-over.  When the first Quickprop iteration calls
\* quickprop_step, dw_prev and dL_prev are the delta and the gradient the
\* seeding grad_descent_step returned.
SeedHandOver ==
    (pc = "step" /\ i = 1) => (dw_prev = seed.dw /\ dL_prev = seed.dL)

\* C3: growth bound.  After every quickprop_step of the driver, each
\* component has |dw| <= 1.75 * |dw_prev|.
GrowthBound ==
    AfterStep =>
        \A k \in Components :
            Leq(AbsR(dw[k]), Mul(MaxGrowthFactor, AbsR(dw_prev[k])))

\* cond_add_slope was called and has returned.
SlopeCall == call.fn = "cond_add_slope" /\ ret.done

LoopLeft == pc \in {"return", "returned", "raised"}

\* C5: termination.  The driver's loop ends, and i <= patience in every
\* state and in the returned iteration count.
Termination ==
    /\ [](i <= patience)
    /\ [](pc = "returned" => result.i <= patience)
    /\ <>LoopLeft

\* The driver returned after all of its patience > 0, without having met the
\* tolerance.
ExhaustedReturn ==
    /\ pc = "returned"
    /\ patience > 0
    /\ result.i = patience
    /\ Greater(L_mean_diff, tolerance)

\* C6: exit condition.  Once the loop is left, the last change of the running
\* mean is at or below the tolerance, or i has reached patience.
ExitCondition ==
    LoopLeft => (Leq(L_mean_diff, tolerance) \/ i = patience)

\* C7: result on every terminal path.  quickprop() never raises: whatever
\* the patience and the tolerance, it ends by returning.
ResultOnEveryPath == pc # "raised"

\* C8: fallback step scale.  After every quickprop_step of the driver, each
\* component whose previous gradient equals its current gradient had the raw
\* delta -learning_rate * dL, learning_rate being quickprop()'s argument.
FallbackStepScale ==
    AfterStep =>
        \A k \in Components :
            EqNum(dL_prev[k], dL[k]) =>
                EqNum(RawDelta(dw_prev[k], dL_prev[k], dL[k], GdLearningRate),
                      Mul(Neg(learning_rate), dL[k]))

\* The recurrence of C9: m_0 = 1, m_j = m_(j-1) + (L_j - m_(j-1)) / (j + 1).
RECURSIVE MeanAfter(_, _)
MeanAfter(ls, j) ==
    IF j = 0 THEN Int2Rat(1)
    ELSE LET m == MeanAfter(ls, j - 1)
         IN  Add(m, Div(Sub(ls[j], m), Int2Rat(j + 1)))

\* The iterations whose loss is in the running mean: iteration i is not yet
\* while quickprop_step runs or has just returned.
Tracked == IF pc \in {"step", "track"} THEN i - 1 ELSE i

\* C9: running-mean recurrence.  With L_1..L_n the losses of the iterations,
\* L_mean is m_j after j iterations (one update per iteration, no reset),
\* and L_mean_diff is |m_j - m_(j-1)|, the change the loop tests.
RunningMeanRecurrence ==
    /\ Len(losses) = (IF pc = "step" THEN i - 1 ELSE i)
    /\ L_mean = MeanAfter(losses, Tracked)
    /\ L_mean_prev = L_mean
    /\ L_mean_diff = (IF Tracked = 0 THEN Int2Rat(1)
                      ELSE AbsR(Sub(MeanAfter(losses, Tracked - 1),
                                    MeanAfter(losses, Tracked))))

\* Two iterations with different losses are in the running mean.
TwoLossesTracked ==
    /\ pc = "test"
    /\ i = 2
    /\ losses[1] = Int2Rat(0)
    /\ losses[2] = Int2Rat(1)
    /\ L_mean = Rat(2, 3)

\* quickprop_step was called and has returned or raised.
StepCall == call.fn = "quickprop_step" /\ ret.done

SameLengths == Len(call.w) = Len(call.dw_prev) /\ Len(call.w) = Len(call.dL_prev)

\* C10: shape-mismatch rejection.  quickprop_step called with w, dL_prev and
\* dw_prev that do not all have the same length raises and returns nothing.
ShapeMismatchRejected == (StepCall /\ ~SameLengths) => ~ret.value.ok

\* What "approximately" allows in C11.
Near == Rat(1, 100)

QuadraticScenario ==
    /\ problem = "quadratic"
    /\ learning_rate = LearningRateDefault
    /\ tolerance = ToleranceDefault
    /\ patience = PatienceDefault

\* C11: end-to-end scenario.  On the quadratic loss (w - 3)^2 started at
\* w = 0 with the default learning rate, tolerance and patience, quickprop()
\* does not raise, and what it returns is finite, with the weight within Near
\* of 3 and the loss within Near of 0.
QuadraticConverges ==
    QuadraticScenario =>
        /\ pc # "raised"
        /\ pc = "returned" =>
               /\ IsFinite(result.w[1])
               /\ IsFinite(result.L)
               /\ Leq(AbsR(Sub(result.w[1], QuadraticMinimum)), Near)
               /\ Leq(AbsR(result.L), Near)

\* The step that Quickprop iteration n called: trace[1] is the seeding step.
Iteration(n) == trace[n + 1]

\* C12: previous-state ordering.  When iteration n >= 2 is about to call
\* quickprop_step, dw_prev is the delta and dL_prev the gradient that
\* iteration n-1 returned, the gradient being calc_gradient's at the weights
\* iteration n-1 was called with, and w is those weights plus dw_prev; and
\* every quickprop_step of an iteration n >= 2 was called with these values.
PreviousStateOrdering ==
    /\ (pc = "step" /\ i >= 2) =>
           /\ Len(trace) = i
           /\ Iteration(i - 1).fn = "quickprop_step"
           /\ dw_prev = Iteration(i - 1).dw
           /\ dL_prev = Iteration(i - 1).dL
           /\ w = VAdd(Iteration(i - 1).w, dw_prev)
    /\ \A n \in 2..(Len(trace) - 1) :
           /\ Iteration(n).dw_prev = Iteration(n - 1).dw
           /\ Iteration(n).dL_prev = Iteration(n - 1).dL
           /\ Iteration(n).w = VAdd(Iteration(n - 1).w, Iteration(n - 1).dw)

\* The second iteration has called quickprop_step with a nonzero finite
\* previous delta and a nonzero previous gradient.
SecondIterationCalled ==
    /\ pc = "track"
    /\ i = 2
    /\ Len(trace) = 3
    /\ \E k \in DOMAIN w :
          /\ IsFinite(Iteration(2).dw_prev[k]) /\ ~IsZero(Iteration(2).dw_prev[k])
          /\ IsFinite(Iteration(2).dL_prev[k]) /\ ~IsZero(Iteration(2).dL_prev[k])

\* The states after the seeding step: one grad_descent_step, called first,
\* every later step a quickprop_step; its one call of calc_gradient is the
\* only one until the first iteration; it returned the delta -1e-5 * gradient
\* and the weights it was given plus that delta, whatever learning_rate is.
Seeded ==
    /\ Len(trace) >= 1
    /\ trace[1].fn = "grad_descent_step"
    /\ \A n \in 2..Len(trace) : trace[n].fn = "quickprop_step"
    /\ i = 0 => (Len(trace) = 1 /\ Cardinality(memo) = 1)
    /\ seed.dL = trace[1].dL
    /\ seed.dw = [k \in DOMAIN seed.dL |-> Mul(Rat(-1, 100000), seed.dL[k])]
    /\ seed.new_w = [k \in DOMAIN seed.dw |-> Add(trace[1].w[k], seed.dw[k])]
    /\ trace[1].dw = seed.dw
    /\ trace[1].new_w = seed.new_w

\* C13: seeding.  quickprop() calls grad_descent_step exactly once, before
\* any Quickprop iteration, and then goes to the loop test whatever the step
\* returned; the step calls calc_gradient once and returns the delta
\* -1e-5 * gradient and the weights plus that delta, the factor 1e-5 being
\* the same for every learning_rate of the driver.
SeedingStep ==
    /\ [](IF pc = "seed" THEN trace = <<>> /\ ENABLED Seed ELSE Seeded)
    /\ [][pc = "seed" => (pc' = "test" /\ i' = 0 /\ w' = seed'.new_w)]_vars

\* The seeding step has returned a nonzero delta under the learning rate 1.5.
SeededWithNonzeroGradient ==
    /\ pc = "test"
    /\ i = 0
    /\ learning_rate = QpLearningRateDefault
    /\ seed.dL[1] = Int2Rat(1)
    /\ seed.dw[1] = Rat(-1, 100000)

\* The delta a step returned for component k is 0 or not finite.
NoFiniteMove(step, k) == ~(IsFinite(step.dw[k]) /\ ~IsZero(step.dw[k]))

\* A component of the previous delta is 0 when the step is called.
Stalled(step, k) == IsZero(step.dw_prev[k])

\* C14: zero delta is absorbing.  In every Quickprop iteration called with a
\* component of dw_prev equal to 0, quickprop_step returns for that component
\* a delta that is not a nonzero finite number, and the component of the
\* weights it returns is the one it was given: the parameter does not move.
ZeroDeltaAbsorbing ==
    \A n \in 1..(Len(trace) - 1) : \A k \in DOMAIN Iteration(n).dw :
        Stalled(Iteration(n), k) =>
            /\ NoFiniteMove(Iteration(n), k)
            /\ Iteration(n).new_w[k] = Iteration(n).w[k]

\* The last step quickprop() called.
LastStep == trace[Len(trace)]

\* What quickprop() returned is the last step's: the loss and the prediction
\* that calc_gradient computed at the weights the step was called with, and
\* those weights plus the delta the step returned.
StaleResult ==
    /\ result.i >= 1
    /\ Len(trace) = result.i + 1
    /\ LastStep.fn = "quickprop_step"
    /\ result.L = LastStep.L
    /\ result.predicted = Prediction(LastStep.w)
    /\ result.w = VAdd(LastStep.w, LastStep.dw)
    /\ result.w = LastStep.new_w

\* calc_gradient was called at weights v.
EvaluatedAt(v) == \E n \in 1..Len(trace) : trace[n].w = v

\* C15 as stated: stale final loss.  Whenever quickprop() returns after an
\* iteration, the loss and the prediction returned are calc_gradient's at
\* the weights before the last delta, the weights returned are those plus
\* the last delta, and calc_gradient was never called at the weights
\* returned (here: when they are finite).
FinalParametersNeverEvaluated ==
    pc = "returned" =>
        /\ StaleResult
        /\ (\A k \in DOMAIN result.w : IsFinite(result.w[k]))
               => ~EvaluatedAt(result.w)

\* C15, amended: stale final loss.  Whenever quickprop() returns after an
\* iteration, the loss and the prediction returned are calc_gradient's at
\* the weights before the last delta, the weights returned are those plus
\* the last delta, and the step that computed them made the last call of
\* calc_gradient: none follows the last delta.
StaleFinalLoss ==
    pc = "returned" =>
        /\ StaleResult
        /\ w = result.w
        /\ predicted.at = LastStep.w

\* quickprop() has returned weights that differ from those its loss was
\* computed at.
ReturnedAfterMove ==
    /\ pc = "returned"
    /\ IsFinite(result.w[1])
    /\ result.w # LastStep.w
    /\ result.predicted.at = LastStep.w

====
